---- MODULE Spec2Model ----
(***************************************************************************)
(* Model of jupyter_cadquery/tessellator.py: the mesh extractor            *)
(* (Tessellator.tessellate), the edge extractor (Tessellator.compute_edges)*)
(* and the memoized entry point tessellate() with its size-budgeted LRU    *)
(* cache.  The CAD kernel (OCP) and the cachetools library are external;   *)
(* their observable behaviour is modelled where the code consumes it.      *)
(***************************************************************************)
EXTENDS Integers, Sequences, FiniteSets, TLC

VARIABLES shape, tess, pc, cache, last, returned, ncalls

vars == <<shape, tess, pc, cache, last, returned, ncalls>>

(***************************************************************************)
(* Bounds of the model.                                                    *)
(***************************************************************************)
MaxFaces == 2
MaxNodes == 3
MaxEdges == 2
MaxPolyNodes == 3
MaxShape == 2
MaxQuality == 2
MaxAngTol == 1
MaxCalls == 2
MaxLRUCalls == 4

\* Python's None (an absent Triangulation / PolygonOnTriangulation / shape).
None == [none |-> TRUE]

Max(a, b) == IF a > b THEN a ELSE b

\* The sum of f[1] .. f[n] of a sequence (or function on 1..n) of integers.
RECURSIVE SumTo(_, _)
SumTo(f, n) == IF n = 0 THEN 0 ELSE f[n] + SumTo(f, n - 1)

\* flat = []; for i in range(1, n + 1): flat.extend(g[i])  with 3-tuples g[i]
Flat3(g) == [k \in 1..(3 * Len(g)) |-> g[((k - 1) \div 3) + 1][((k - 1) % 3) + 1]]

(***************************************************************************)
(* Kernel data read by the extractors.                                     *)
(***************************************************************************)
Orientations == {"FORWARD", "REVERSED", "INTERNAL", "EXTERNAL"}

\* The triangles of a triangulation, as the kernel stores them: 1-based node
\* indices.  The inputs are triangle strips, whose winding alternates.
StripTriangles(k) ==
    [t \in 1..k |-> IF t % 2 = 1 THEN <<t, t + 1, t + 2>> ELSE <<t, t + 2, t + 1>>]

\* Poly_Triangulation: NbNodes(), Triangle(i).Get(), HasUVNodes()
Polys ==
    UNION {{[nbNodes |-> n, triangles |-> StripTriangles(k), hasUV |-> uv] :
                k \in 0..Max(n - 2, 0), uv \in BOOLEAN} : n \in 1..MaxNodes}

Faces == [orientation : Orientations, poly : Polys \cup {None}]

\* get_faces(shape): the faces of the shape in traversal order.
get_faces(s) == s.faces

\* poly.Node(i).Transformed(Trsf).Coord(): the three coordinates of node i of
\* face f in shape space; each value is tagged with the face and node it is of.
NodeCoord(f, i) == << <<f, i, 1>>, <<f, i, 2>> , <<f, i, 3>> >>

\* prop.Normal(u, v, p_buf, n_buf) at node i of face f, normalised when its
\* magnitude is positive, reversed for an internal face.
NormalCoord(f, i, internal) ==
    LET sgn == IF internal THEN -1 ELSE 1
    IN  << <<f, i, 1, sgn>>, <<f, i, 2, sgn>>, <<f, i, 3, sgn>> >>

(***************************************************************************)
(* class Tessellator                                                       *)
(***************************************************************************)
Tessellator_init ==
    [vertices |-> <<>>, triangles |-> <<>>, normals |-> <<>>,
     shape |-> None, edges |-> <<>>]

\* offset = -1
InitialOffset == -1

\* winding without the swap for reversed faces.
winding_noswap(orientation) == <<1, 2>>
\* i1, i2 = 2, 1 for a reversed face, 1, 2 otherwise (positions in coord).
winding(orientation) ==
    IF orientation = "REVERSED" THEN <<2, 1>> ELSE <<1, 2>>

\* (coord[0] + offset, coord[i1] + offset, coord[i2] + offset); coord is
\* 0-based in the code, so position p is coord[p + 1] here.
triangle_indices(coord, i1, i2, offset) ==
    <<coord[1] + offset, coord[i1 + 1] + offset, coord[i2 + 1] + offset>>

\* The offset advanced by the face's triangle count instead.
advance_offset_by_triangles(offset, poly) == offset + Len(poly.triangles)
\* offset += poly.NbNodes()
advance_offset(offset, poly) == offset + poly.nbNodes

\* if poly.HasUVNodes(): ... self.normals.extend(flat)
face_normals(poly, f, internal) ==
    IF poly.hasUV
    THEN Flat3([i \in 1..poly.nbNodes |-> NormalCoord(f, i, internal)])
    ELSE <<>>

\* The body of the loop over the faces, for face number f of the traversal.
tessellate_face(face, f, acc) ==
    LET w        == winding(face.orientation)
        i1       == w[1]
        i2       == w[2]
        internal == face.orientation = "INTERNAL"
        poly     == face.poly
    IN  IF poly # None
        THEN [vertices  |-> acc.vertices \o
                            Flat3([i \in 1..poly.nbNodes |-> NodeCoord(f, i)]),
              triangles |-> acc.triangles \o
                            Flat3([i \in 1..Len(poly.triangles) |->
                                      triangle_indices(poly.triangles[i], i1, i2,
                                                       acc.offset)]),
              normals   |-> acc.normals \o face_normals(poly, f, internal),
              offset    |-> advance_offset(acc.offset, poly)]
        ELSE acc

RECURSIVE tessellate_loop(_, _, _)
tessellate_loop(faces, f, acc) ==
    IF f > Len(faces)
    THEN acc
    ELSE tessellate_loop(faces, f + 1, tessellate_face(faces[f], f, acc))

\* Tessellator.tessellate(self)
Tessellator_tessellate(self) ==
    LET acc == tessellate_loop(get_faces(self.shape), 1,
                               [vertices |-> <<>>, triangles |-> <<>>,
                                normals |-> <<>>, offset |-> InitialOffset])
    IN  [self EXCEPT !.vertices = acc.vertices,
                     !.triangles = acc.triangles,
                     !.normals = acc.normals]

(***************************************************************************)
(* Edge extraction.                                                        *)
(***************************************************************************)
\* BRep_Tool.Triangulation_s(face, loc): the face's triangulation, or None.
Triangulation_s(face) == face.poly

\* BRep_Tool.PolygonOnTriangulation_s(edge, triangle, loc): the edge's polygon
\* on that triangulation; the kernel finds none for an absent triangulation.
PolygonOnTriangulation_s(edge, triangle) ==
    IF triangle = None THEN None ELSE edge.poly

\* nrange and index, for the two kernel versions the code supports.
node_range(poly, occt) ==
    IF occt = "new"
    THEN 1..Len(poly.nodes)                       \* range(1, poly.NbNodes() + 1)
    ELSE 1..Len(poly.nodes)                       \* indices.Lower() .. indices.Upper()

\* v1 = None; for j in nrange: v2 = ...; if v1 is not None: append((v1, v2)); v1 = v2
RECURSIVE segments_loop(_, _, _, _, _, _)
segments_loop(poly, f, j, hi, v1, acc) ==
    IF j > hi
    THEN acc
    ELSE LET v2 == NodeCoord(f, poly.nodes[j])
         IN  segments_loop(poly, f, j + 1, hi, v2,
                           IF v1 # None THEN Append(acc, <<v1, v2>>) ELSE acc)

\* edge_segments with the node range cut one short: range(1, poly.NbNodes()).
edge_segments_short_range(s, edge, occt) ==
    IF Len(edge.face_list) = 0
    THEN <<>>
    ELSE LET f        == edge.face_list[1]
             triangle == Triangulation_s(s.faces[f])
             poly     == PolygonOnTriangulation_s(edge, triangle)
         IN  IF poly = None
             THEN <<>>
             ELSE segments_loop(poly, f, 1, Len(poly.nodes) - 1, None, <<>>)

\* The body of the loop over the edges: the segments one edge contributes.
edge_segments(s, edge, occt) ==
    IF Len(edge.face_list) = 0
    THEN <<>>                                         \* continue
    ELSE LET f        == edge.face_list[1]            \* face_list.First()
             triangle == Triangulation_s(s.faces[f])
             poly     == PolygonOnTriangulation_s(edge, triangle)
         IN  IF poly = None
             THEN <<>>                                \* continue
             ELSE LET r == node_range(poly, occt)
                  IN  segments_loop(poly, f, 1, Cardinality(r), None, <<>>)

RECURSIVE compute_edges_loop(_, _, _)
compute_edges_loop(s, i, acc) ==
    IF i > Len(s.edges)
    THEN acc
    ELSE compute_edges_loop(s, i + 1, acc \o edge_segments(s, s.edges[i], s.occt))

\* Tessellator.compute_edges(self)
Tessellator_compute_edges(self) ==
    [self EXCEPT !.edges = compute_edges_loop(self.shape, 1, self.edges)]

(***************************************************************************)
(* The kernel's incremental mesh of a list of shapes, in summary: how many *)
(* nodes, triangles and edge segments it holds.  A shape is named by a     *)
(* number (its weight); a coarser quality (a larger deflection) gives      *)
(* fewer nodes.                                                            *)
(***************************************************************************)
NodesPerUnit == 3 * (2 ^ 18)

RECURSIVE Weight(_)
Weight(shapes) == IF shapes = <<>> THEN 0 ELSE Head(shapes) + Weight(Tail(shapes))

\* What BRepMesh_IncrementalMesh leaves on the shape: nothing when it raised or
\* did not complete.
MeshNbNodes(shapes, quality, kernel) ==
    IF kernel = "done" THEN (Weight(shapes) * NodesPerUnit) \div quality ELSE 0
MeshNbTriangles(shapes, quality, kernel) == 2 * MeshNbNodes(shapes, quality, kernel)
MeshNbSegments(shapes, quality, kernel) == MeshNbNodes(shapes, quality, kernel) \div 4

\* shape.HashCode(upper): the kernel's structural hash, in 1..upper.
HashUpper == 2147483647
HashCode(s, upper) == ((s * 1000003) % upper) + 1

(***************************************************************************)
(* make_key, get_size and the cache.                                       *)
(***************************************************************************)
FlagNames == {"compute_faces", "compute_edges"}

\* How Python binds the flags of a call f(shapes, quality, angular_tolerance,
\* *pos, **kw) to a signature whose 4th and 5th parameters are named p4, p5;
\* a parameter given both by position and by keyword is a TypeError.
bind(pos, kw, p4, p5) ==
    [ok |-> /\ (Len(pos) >= 1 => p4 \notin DOMAIN kw)
            /\ (Len(pos) >= 2 => p5 \notin DOMAIN kw),
     p4 |-> IF Len(pos) >= 1 THEN pos[1]
            ELSE IF p4 \in DOMAIN kw THEN kw[p4] ELSE TRUE,
     p5 |-> IF Len(pos) >= 2 THEN pos[2]
            ELSE IF p5 \in DOMAIN kw THEN kw[p5] ELSE TRUE]

\* def tessellate(shapes, quality, angular_tolerance, compute_faces=True, compute_edges=True, ...)
bind_tessellate(pos, kw) ==
    LET b == bind(pos, kw, "compute_faces", "compute_edges")
    IN  [ok |-> b.ok, compute_faces |-> b.p4, compute_edges |-> b.p5]

\* def make_key(shape, quality, angular_tolerance, compute_edges=True, compute_faces=True, ...)
bind_make_key(pos, kw) ==
    LET b == bind(pos, kw, "compute_edges", "compute_faces")
    IN  [ok |-> b.ok, compute_edges |-> b.p4, compute_faces |-> b.p5]

\* make_key with the quality left out of the key.
make_key_without_quality(shape_, quality, angular_tolerance, compute_edges, compute_faces, debug, progress) ==
    <<HashCode(shape_[1], HashUpper), 0, angular_tolerance, compute_edges, compute_faces>>
make_key(shape_, quality, angular_tolerance, compute_edges, compute_faces, debug, progress) ==
    <<HashCode(shape_[1], HashUpper), quality, angular_tolerance, compute_edges, compute_faces>>

\* sys.getsizeof of an empty ndarray and of the four-key dict; dtype itemsize.
SizeofArray == 112
SizeofDict == 232
ItemSize == 4

\* An ndarray, in summary: its number of elements and what they are.
Array(n, data) == [size |-> n, data |-> IF n = 0 THEN <<>> ELSE data]

\* get_size of an ndarray that owns its data: sys.getsizeof counts the data
\* and the isinstance branch adds obj.size * obj.dtype.itemsize again.
get_size_array(arr) == (SizeofArray + arr.size * ItemSize) + arr.size * ItemSize

\* get_size of the result dict: sys.getsizeof(obj) + sum(get_size(v) + len(k)).
get_size(obj) ==
    SizeofDict
    + (get_size_array(obj.vertices) + 8)
    + (get_size_array(obj.triangles) + 9)
    + (get_size_array(obj.normals) + 7)
    + (get_size_array(obj.edges) + 5)

\* cache = LRUCache(maxsize=128 * 1024 * 1024, getsizeof=get_size)
maxsize == 128 * 1024 * 1024

\* The cache is the sequence of its entries, least recently used first.
Keys(c) == {c[i].key : i \in 1..Len(c)}
IndexOf(c, k) == CHOOSE i \in 1..Len(c) : c[i].key = k
Without(c, i) == SubSeq(c, 1, i - 1) \o SubSeq(c, i + 1, Len(c))
currsize(c) == SumTo([i \in 1..Len(c) |-> c[i].size], Len(c))

\* A lookup that leaves the order of use alone.
LRUCache_getitem_no_touch(c, k) == c
\* LRUCache.__getitem__: the value, and the key becomes the most recently used.
LRUCache_getitem(c, k) ==
    LET i == IndexOf(c, k) IN Append(Without(c, i), c[i])

\* while self.currsize + size > maxsize: self.popitem()
RECURSIVE popitems(_, _)
popitems(c, size) ==
    IF currsize(c) + size > maxsize THEN popitems(Tail(c), size) ELSE c

\* LRUCache.__setitem__ for a value of at most maxsize: make room, store the
\* value, and the key becomes the most recently used.
LRUCache_setitem(c, entry) ==
    LET k    == entry.key
        room == IF k \notin Keys(c) \/ c[IndexOf(c, k)].size < entry.size
                THEN popitems(c, entry.size)
                ELSE c
    IN  IF k \in Keys(room)
        THEN Append(Without(room, IndexOf(room, k)), entry)
        ELSE Append(room, entry)

(***************************************************************************)
(* Tessellator.compute and tessellate(), on the summary of the mesh.       *)
(***************************************************************************)
\* number_solids(shape): every shape of the list is one solid.
number_solids(shapes) == Len(shapes)

\* Tessellator.compute followed by the four get_* calls of tessellate(): the
\* result dict.  kernel is what BRepMesh_IncrementalMesh did ("done", or
\* "notdone": it returned without completing the mesh); its IsDone() is not read.
Tessellator_compute(shapes, quality, angular_tolerance, compute_faces, compute_edges, kernel) ==
    LET mesh  == <<shapes, quality, angular_tolerance>>
        nodes == MeshNbNodes(shapes, quality, kernel)
        tris  == MeshNbTriangles(shapes, quality, kernel)
        segs  == MeshNbSegments(shapes, quality, kernel)
    IN  [vertices  |-> Array(IF compute_faces THEN 3 * nodes ELSE 0, mesh),
         triangles |-> Array(IF compute_faces THEN 3 * tris ELSE 0, mesh),
         normals   |-> Array(IF compute_faces THEN 3 * nodes ELSE 0, mesh),
         edges     |-> Array(IF compute_edges THEN 6 * segs ELSE 0, mesh)]

\* The kernel and extractor calls one run of the body of tessellate() makes.
NoWork == [Clean |-> 0, IncrementalMesh |-> 0, parallel |-> FALSE,
           tessellate |-> 0, compute_edges |-> 0]
Work(shapes, compute_faces, compute_edges, kernel) ==
    [Clean |-> 1, IncrementalMesh |-> 1, parallel |-> number_solids(shapes) > 1,
     tessellate |-> IF kernel # "raise" /\ compute_faces THEN 1 ELSE 0,
     compute_edges |-> IF kernel # "raise" /\ compute_edges THEN 1 ELSE 0]

\* The request of a call, as tessellate() itself receives it.
Request(shapes, quality, angular_tolerance, t) ==
    [shapes |-> shapes, quality |-> quality, angular_tolerance |-> angular_tolerance,
     compute_faces |-> t.compute_faces, compute_edges |-> t.compute_edges]

\* What Cache determinism identifies a call by.
Identity(req) ==
    <<HashCode(req.shapes[1], HashUpper), req.quality, req.angular_tolerance,
      req.compute_faces, req.compute_edges>>

\* One call tessellate(shapes, quality, angular_tolerance, *pos, **kw) through
\* the @cached(cache, key=make_key) wrapper:
\*     k = key(*args, **kwargs)
\*     try: return cache[k]
\*     except KeyError: pass
\*     v = func(*args, **kwargs)
\*     try: cache[k] = v
\*     except ValueError: pass    # value too large
\*     return v
\* kernel is what the kernel's meshing does if this call reaches it.
tessellate(shapes, quality, angular_tolerance, pos, kw, debug, progress, kernel) ==
    LET t      == bind_tessellate(pos, kw)
        kb     == bind_make_key(pos, kw)
        req    == Request(shapes, quality, angular_tolerance, t)
        k      == make_key(shapes, quality, angular_tolerance,
                           kb.compute_edges, kb.compute_faces, debug, progress)
        repeat == \E r \in returned : r.id = Identity(req)
        call   == [req |-> req, repeat |-> repeat, evicted |-> 0]
    IN  /\ ncalls' = ncalls + 1
        /\ IF ~kb.ok
           THEN \* make_key raises TypeError before anything else happens
                /\ last' = call @@ [outcome |-> "TypeError", key |-> None, kernel |-> "none",
                                    result |-> None, by |-> None, work |-> NoWork]
                /\ UNCHANGED <<cache, returned>>
           ELSE IF k \in Keys(cache)
           THEN \* hit: return cache[k]
                LET e == cache[IndexOf(cache, k)]
                IN  /\ cache' = LRUCache_getitem(cache, k)
                    /\ last' = call @@ [outcome |-> "hit", key |-> k, kernel |-> "none",
                                        result |-> e.value, by |-> e.by, work |-> NoWork]
                    /\ returned' = IF repeat THEN returned
                                   ELSE returned \cup {[id |-> Identity(req), result |-> e.value]}
           ELSE IF kernel = "raise"
           THEN \* miss, and the kernel's exception propagates to the caller
                /\ last' = call @@ [outcome |-> "error", key |-> k, kernel |-> kernel,
                                    result |-> None, by |-> None,
                                    work |-> Work(shapes, t.compute_faces, t.compute_edges, kernel)]
                /\ UNCHANGED <<cache, returned>>
           ELSE \* miss: v = func(...); cache[k] = v unless it is too large
                LET v     == Tessellator_compute(shapes, quality, angular_tolerance,
                                                 t.compute_faces, t.compute_edges, kernel)
                    size  == get_size(v)
                    entry == [key |-> k, value |-> v, size |-> size, by |-> req,
                              born |-> ncalls + 1]
                    c2    == IF size > maxsize THEN cache ELSE LRUCache_setitem(cache, entry)
                IN  /\ cache' = c2
                    /\ last' = [call EXCEPT !.evicted =
                                    IF size > maxsize THEN 0 ELSE Len(cache) + 1 - Len(c2)]
                               @@ [outcome |-> "miss", key |-> k, kernel |-> kernel,
                                   result |-> v, by |-> req,
                                   work |-> Work(shapes, t.compute_faces, t.compute_edges, kernel)]
                    /\ returned' = IF repeat THEN returned
                                   ELSE returned \cup {[id |-> Identity(req), result |-> v]}
        /\ UNCHANGED <<shape, tess, pc>>

(***************************************************************************)
(* Input shapes of the extractors.                                         *)
(***************************************************************************)
\* Shapes for the mesh extractor: nf faces of any kind, no edges.
TessShapes(nf) ==
    {[faces |-> fs, edges |-> <<>>, occt |-> "new"] : fs \in [1..nf -> Faces]}

\* Faces for the edge extractor: unmeshed, or meshed with MaxNodes nodes.
EdgeFaces ==
    {[orientation |-> "FORWARD", poly |-> None],
     [orientation |-> "FORWARD",
      poly |-> [nbNodes |-> MaxNodes, triangles |-> StripTriangles(Max(MaxNodes - 2, 0)),
                hasUV |-> TRUE]]}

\* Poly_PolygonOnTriangulation: n node indices walking round the face's nodes.
PolygonNodes(n) == [j \in 1..n |-> ((j - 1) % MaxNodes) + 1]

EdgePolys == {None} \cup {[nodes |-> PolygonNodes(n)] : n \in 0..MaxPolyNodes}

\* The faces adjacent to an edge, in the kernel's order, for a shape of nf faces.
FaceLists(nf) ==
    {<<>>} \cup {<<f>> : f \in 1..nf} \cup (IF nf > 1 THEN {<<1, nf>>} ELSE {})

\* Shapes for the edge extractor: nf faces and ne edges, for either kernel.
EdgeShapes(nf, ne) ==
    {[faces |-> fs, edges |-> es, occt |-> o] :
        fs \in [1..nf -> EdgeFaces],
        es \in [1..ne -> [face_list : FaceLists(nf), poly : EdgePolys]],
        o \in {"new", "7.5"}}

(***************************************************************************)
(* The cache state, untouched by the extractor specifications.             *)
(***************************************************************************)
NoCall == [outcome |-> "none"]

CacheIdle ==
    /\ cache = <<>>
    /\ last = NoCall
    /\ returned = {}
    /\ ncalls = 0

(***************************************************************************)
(* Specification of the mesh extractor: Tessellator.tessellate applied to  *)
(* every input shape.                                                      *)
(***************************************************************************)
InitTess ==
    /\ \E nf \in 1..MaxFaces : shape \in TessShapes(nf)
    /\ tess = [Tessellator_init EXCEPT !.shape = shape]
    /\ pc = "meshed"
    /\ CacheIdle

RunTessellate ==
    /\ pc = "meshed"
    /\ tess' = Tessellator_tessellate(tess)
    /\ pc' = "tessellated"
    /\ UNCHANGED <<shape, cache, last, returned, ncalls>>

NextTess == RunTessellate

SpecTess == InitTess /\ [][NextTess]_vars

(***************************************************************************)
(* Specification of the edge extractor: Tessellator.compute_edges applied  *)
(* to every input shape.                                                   *)
(***************************************************************************)
InitEdges ==
    /\ \E nf \in 1..MaxFaces : \E ne \in 1..MaxEdges : shape \in EdgeShapes(nf, ne)
    /\ tess = [Tessellator_init EXCEPT !.shape = shape]
    /\ pc = "meshed"
    /\ CacheIdle

RunComputeEdges ==
    /\ pc = "meshed"
    /\ tess' = Tessellator_compute_edges(tess)
    /\ pc' = "edges"
    /\ UNCHANGED <<shape, cache, last, returned, ncalls>>

NextEdges == RunComputeEdges

SpecEdges == InitEdges /\ [][NextEdges]_vars

(***************************************************************************)
(* Specifications of the cache: sequences of tessellate() calls.           *)
(***************************************************************************)
Shapes == 1..MaxShape
ShapeLists == {<<a>> : a \in Shapes} \cup {<<a, b>> : a, b \in Shapes}
Qualities == 1..MaxQuality
AngTols == 1..MaxAngTol

\* The ways of passing the two flags that tessellate() itself accepts.
Kwargs == UNION {[D -> BOOLEAN] : D \in SUBSET FlagNames}
FlagArgs ==
    {pk \in (UNION {[1..n -> BOOLEAN] : n \in 0..2}) \X Kwargs :
        bind_tessellate(pk[1], pk[2]).ok}

InitCache ==
    /\ shape = None
    /\ tess = Tessellator_init
    /\ pc = "idle"
    /\ CacheIdle

\* Any call: any shape list, quality, tolerance, way of passing the flags, and
\* any behaviour of the kernel's meshing.
Call ==
    /\ ncalls < MaxCalls
    /\ \E shapes \in ShapeLists, quality \in Qualities, angular_tolerance \in AngTols,
          pk \in FlagArgs, debug \in BOOLEAN, progress \in BOOLEAN,
          kernel \in {"done", "raise", "notdone"} :
            tessellate(shapes, quality, angular_tolerance, pk[1], pk[2], debug, progress, kernel)

Next == Call

Spec == InitCache /\ [][Next]_vars

\* Calls with one shape and the flags defaulted, the kernel always succeeding:
\* longer sequences, for the eviction order.
CallDefault ==
    /\ ncalls < MaxLRUCalls
    /\ \E s \in Shapes, quality \in Qualities, angular_tolerance \in AngTols :
            tessellate(<<s>>, quality, angular_tolerance, <<>>, <<>>, FALSE, TRUE, "done")

NextLRU == CallDefault

SpecLRU == InitCache /\ [][NextLRU]_vars

(***************************************************************************)
(* Properties of the cache (Spec, SpecLRU).                                *)
(***************************************************************************)
\* The last call returned a MeshResult to its caller.
Returned == last.outcome \in {"hit", "miss"}
\* A call has been made.
Called == last.outcome # "none"

\* C1 (cache determinism): a call whose (shape-hash, quality,
\* angular_tolerance, compute_faces, compute_edges) equals that of an earlier
\* call that returned, returns the same MeshResult contents and invokes no
\* Clean, no IncrementalMesh, no Tessellator.tessellate and no compute_edges.
CacheDeterminism ==
    (Called /\ last.repeat) =>
        /\ Returned
        /\ \A r \in returned : r.id = Identity(last.req) => last.result = r.result
        /\ last.work = NoWork

\* C2 (cache non-aliasing): a call never returns an entry that was meshed with
\* another quality: what it returns was computed by a call with its own
\* quality, its buffers come from the mesh of that quality, and every entry
\* is stored under the quality it was meshed with.
QualityNonAliasing ==
    /\ Returned =>
          /\ last.by.quality = last.req.quality
          /\ \A n \in {"vertices", "triangles", "normals", "edges"} :
                last.result[n].size > 0 => last.result[n].data[2] = last.req.quality
    /\ \A i \in 1..Len(cache) : cache[i].key[2] = cache[i].by.quality

\* A miss while the cache holds the entry of a call that differs only in quality.
QualityWitness ==
    /\ last.outcome = "miss"
    /\ \E i \in 1..Len(cache) :
          /\ cache[i].by.quality # last.req.quality
          /\ cache[i].by = [last.req EXCEPT !.quality = cache[i].by.quality]

\* C3 (fatal propagation): when the kernel's incremental meshing signals
\* failure, by raising or by reporting that the mesh was not done, the call
\* surfaces an error and the cache holds no entry for its key.
FatalPropagation ==
    (Called /\ last.kernel \in {"raise", "notdone"}) =>
        /\ last.outcome = "error"
        /\ last.key \notin Keys(cache)

\* C8 (key faithfulness on the flags): however the flags are passed, the key
\* of a call carries the call's own compute_edges and compute_faces; so what a
\* call returns was computed with its own flags, and debug and progress do not
\* enter the key.
KeyFaithfulness ==
    Called =>
        /\ last.key = <<HashCode(last.req.shapes[1], HashUpper), last.req.quality,
                        last.req.angular_tolerance, last.req.compute_edges,
                        last.req.compute_faces>>
        /\ Returned => /\ last.by.compute_faces = last.req.compute_faces
                       /\ last.by.compute_edges = last.req.compute_edges
        /\ \A debug, progress \in BOOLEAN :
              make_key(last.req.shapes, last.req.quality, last.req.angular_tolerance,
                       last.key[4], last.key[5], debug, progress) = last.key

\* C9 (size-budgeted LRU eviction).  The accounted sizes of the entries held
\* never sum to more than the budget.
WithinBudget ==
    SumTo([i \in 1..Len(cache) |-> get_size(cache[i].value)], Len(cache)) <= maxsize

\* The accounted size of the entries of c after its d least recently used ones.
SizeAfter(c, d) == SumTo([i \in 1..(Len(c) - d) |-> get_size(c[d + i].value)], Len(c) - d)

\* What a call does to the cache: a hit makes its entry the most recently
\* used; a miss drops least recently used entries, as few as make the new
\* entry fit, and adds the new entry as the most recently used (a result
\* larger than the whole budget is not stored); and no entry that stays is
\* replaced or modified.
LRUStep ==
    ncalls' = ncalls + 1 =>
        /\ last'.outcome = "hit" =>
              \E i \in 1..Len(cache) :
                  /\ cache[i].key = last'.key
                  /\ cache' = [j \in 1..Len(cache) |->
                                  IF j < i THEN cache[j]
                                  ELSE IF j < Len(cache) THEN cache[j + 1] ELSE cache[i]]
        /\ (last'.outcome = "miss" /\ get_size(last'.result) <= maxsize) =>
              \E d \in 0..Len(cache) :
                  /\ SizeAfter(cache, d) + get_size(last'.result) <= maxsize
                  /\ \A e \in 0..(d - 1) :
                        SizeAfter(cache, e) + get_size(last'.result) > maxsize
                  /\ Len(cache') = Len(cache) - d + 1
                  /\ \A j \in 1..(Len(cache) - d) : cache'[j] = cache[d + j]
                  /\ cache'[Len(cache')].key = last'.key
                  /\ cache'[Len(cache')].value = last'.result
        /\ (last'.outcome = "miss" /\ get_size(last'.result) > maxsize) => cache' = cache
        /\ \A i \in 1..Len(cache) : \A j \in 1..Len(cache') :
              cache'[j].key = cache[i].key => cache'[j] = cache[i]

LRUEviction == []WithinBudget /\ [][LRUStep]_vars

\* The fourth call evicts the entry of the second call and keeps the entry of
\* the first call, which the third call hit.
LRUWitness ==
    /\ ncalls = 4
    /\ last.outcome = "miss"
    /\ last.evicted = 1
    /\ Len(cache) = 2
    /\ cache[1].born = 1
    /\ cache[2].born = 4

\* C10 (the key covers the whole shape list): what a call returns was computed
\* from the call's own list of shapes.
KeyCoversShapeList ==
    Returned => last.by.shapes = last.req.shapes

(***************************************************************************)
(* Properties of the mesh extractor (SpecTess).                            *)
(***************************************************************************)
\* What the input shape holds, face by face.
Meshed(i) == shape.faces[i].poly # None
NbNodesOf(i) == IF Meshed(i) THEN shape.faces[i].poly.nbNodes ELSE 0
NbTrianglesOf(i) == IF Meshed(i) THEN Len(shape.faces[i].poly.triangles) ELSE 0
\* The node (triangle) count of the faces before face i.
NodesBefore(i) == SumTo([j \in 1..Len(shape.faces) |-> NbNodesOf(j)], i - 1)
TrianglesBefore(i) == SumTo([j \in 1..Len(shape.faces) |-> NbTrianglesOf(j)], i - 1)
\* The t-th triangle emitted for face i, as it stands in the flat buffer.
Emitted(i, t) ==
    LET k == 3 * (TrianglesBefore(i) + t - 1)
    IN  <<tess.triangles[k + 1], tess.triangles[k + 2], tess.triangles[k + 3]>>

\* C4 (offset correctness): after Tessellator.tessellate the triangle buffer
\* holds exactly the triangles of the meshed faces; every emitted index lies in
\* [0, total_vertex_count), and every index emitted for face i lies in
\* [nodes of earlier meshed faces, that + NbNodes(i)) and names a vertex that
\* was appended for face i itself.
OffsetCorrectness ==
    pc = "tessellated" =>
        /\ Len(tess.triangles) = 3 * TrianglesBefore(Len(shape.faces) + 1)
        /\ \A i \in 1..Len(shape.faces) : \A t \in 1..NbTrianglesOf(i) : \A p \in 1..3 :
              LET idx == Emitted(i, t)[p]
              IN  /\ idx >= 0
                  /\ 3 * idx < Len(tess.vertices)
                  /\ idx >= NodesBefore(i)
                  /\ idx < NodesBefore(i) + NbNodesOf(i)
                  /\ tess.vertices[3 * idx + 1][1] = i

\* Two meshed faces with a triangle each: the second face's indices are offset.
OffsetWitness ==
    /\ pc = "tessellated"
    /\ Len(shape.faces) = 2
    /\ NbTrianglesOf(1) > 0
    /\ NbTrianglesOf(2) > 0
    /\ Emitted(2, 1)[1] = NbNodesOf(1)

\* C5 (normals alignment): after Tessellator.tessellate, len(normals) is 0 or
\* exactly len(vertices).
NormalsAlignment ==
    pc = "tessellated" =>
        (Len(tess.normals) = 0 \/ Len(tess.normals) = Len(tess.vertices))

\* C7 (winding): a native triangle (a, b, c) (0-based node numbers) of face i is
\* emitted as (a, c, b) plus the running offset when the face is reversed, and
\* as (a, b, c) plus the running offset for every other orientation.
WindingInvariant ==
    pc = "tessellated" =>
        \A i \in 1..Len(shape.faces) : \A t \in 1..NbTrianglesOf(i) :
            LET native == shape.faces[i].poly.triangles[t]
                a == native[1] - 1
                b == native[2] - 1
                c == native[3] - 1
                o == NodesBefore(i)
            IN  Emitted(i, t) =
                    IF shape.faces[i].orientation = "REVERSED"
                    THEN <<a + o, c + o, b + o>>
                    ELSE <<a + o, b + o, c + o>>

\* A single reversed face with native triangle (0, 1, 2) emits (0, 2, 1).
WindingWitness ==
    /\ pc = "tessellated"
    /\ Len(shape.faces) = 1
    /\ shape.faces[1].orientation = "REVERSED"
    /\ NbTrianglesOf(1) = 1
    /\ shape.faces[1].poly.triangles[1] = <<1, 2, 3>>
    /\ tess.triangles = <<0, 2, 1>>

(***************************************************************************)
(* Properties of the edge extractor (SpecEdges).                           *)
(***************************************************************************)
\* An edge that the claim says is skipped.
EdgeSkipped(e) ==
    \/ Len(e.face_list) = 0
    \/ shape.faces[e.face_list[1]].poly = None
    \/ e.poly = None
    \/ Len(e.poly.nodes) <= 1
SegmentCount(i) ==
    IF EdgeSkipped(shape.edges[i]) THEN 0 ELSE Len(shape.edges[i].poly.nodes) - 1
SegmentsBefore(i) == SumTo([j \in 1..Len(shape.edges) |-> SegmentCount(j)], i - 1)

\* C6 (edge segment count): after Tessellator.compute_edges, an edge with N
\* polygon nodes has contributed exactly N - 1 segments, the j-th joining nodes
\* j and j + 1; an edge with N <= 1, with no adjacent face, with an unmeshed
\* first adjacent face or with no polygon has contributed none, and the edges
\* after it are still processed.
EdgeSegmentCount ==
    pc = "edges" =>
        /\ Len(tess.edges) = SegmentsBefore(Len(shape.edges) + 1)
        /\ \A i \in 1..Len(shape.edges) : \A j \in 1..SegmentCount(i) :
              LET e == shape.edges[i]
                  f == e.face_list[1]
              IN  tess.edges[SegmentsBefore(i) + j] =
                      <<NodeCoord(f, e.poly.nodes[j]), NodeCoord(f, e.poly.nodes[j + 1])>>

\* A skipped edge followed by an edge of three nodes, which yields two segments.
EdgeSegmentWitness ==
    /\ pc = "edges"
    /\ Len(shape.edges) = 2
    /\ EdgeSkipped(shape.edges[1])
    /\ ~EdgeSkipped(shape.edges[2])
    /\ Len(shape.edges[2].poly.nodes) = 3
    /\ Len(tess.edges) = 2

====
